---- MODULE Spec2Model ----
(***************************************************************************)
(* Gym check-in kiosk: the record store (the tables of create_tables.sql   *)
(* behind storage.service.ts), the subscription evaluator                  *)
(* (subscription.service.ts) and the access decision engine                *)
(* (access.service.ts, and the second version of it kept in the            *)
(* repository).  Timestamps are epoch milliseconds; an ISO string written  *)
(* by toISOString and read back by new Date denotes the same millisecond,  *)
(* so a timestamp is carried as that integer.  A query result is the set   *)
(* of rows it matched; a nullable value is a set of at most one element.   *)
(* Member names and contact fields take no part in any decision and are    *)
(* left out of the rows.                                                   *)
(***************************************************************************)
EXTENDS Integers, Sequences, FiniteSets, TLC

VARIABLES
  users,                 \* table users: the set of user_id values
  subscriptions,         \* table subscriptions: set of rows
  subscription_history,  \* table subscription_history: set of rows
  scan_logs,             \* table scan_logs: rows in insertion order
  active_sessions,       \* table active_sessions: set of rows
  user_id_counter,       \* table user_id_counter: last_number of the row id = 1
  now,                   \* the wall clock, Date.now()
  build,                 \* which version of the access service is deployed
  last,                  \* the most recent service call and what it returned
  faulted,               \* whether a storage call has failed in this run
  eval,                  \* subscription evaluator: inputs drawn and outputs computed
  inflight,              \* calls in progress: where each one stands and what it holds
  scanner                \* useQRScanner: its refs, state, pending timers and onScan calls

vars == <<users, subscriptions, subscription_history, scan_logs, active_sessions,
          user_id_counter, now, build, last, faulted, eval, inflight, scanner>>

----------------------------------------------------------------------------
(* Bounds of the model *)

MaxTime == 1        \* the clock runs over 0..MaxTime
MaxMembers == 1     \* registrations made
MaxLogs == 3        \* rows the scan log may hold before the kiosk stops being used
EvalDays == 2       \* evaluator inputs range over 0..EvalDays days
MaxThreshold == 2   \* isExpiringSoon thresholds range over 0..MaxThreshold
MaxClock == 8       \* renewals and edits are made while the clock is within 0..MaxClock
MaxCalls == 2       \* generateUserId calls each registration screen makes
MaxHoursLogs == 3   \* gym hours are computed on lists of up to MaxHoursLogs logs
MaxStamp == 2       \* whose timestamps range over 0..MaxStamp
MaxBuffer == 1      \* keys the scanner buffer holds before an Enter or a reset
MaxScans == 2       \* onScan calls the scanner makes
MaxElapses == 2     \* times the kiosk clock moves on

(* Program constants *)

CounterSeed == 1000                      \* INSERT INTO user_id_counter ... 1000
FallbackNumber == 1001                   \* generateUserId: return "BCF-1001"
MS_PER_DAY == 1000 * 60 * 60 * 24        \* getRemainingDays: 1000 * 60 * 60 * 24
debounceMs == 500                        \* useQRScanner(onScan, debounceMs = 500)
BufferResetMs == 100                     \* setTimeout(() => bufferRef.current = "", 100)
ScanResetMs == 2000                      \* setTimeout(() => resetScanner(), 2000)
PageLoad == 1000000                      \* Date.now() as the kiosk page opens: far from 0

Times == 0..MaxTime
MemberIds == (CounterSeed + 1)..(CounterSeed + MaxMembers)
UnknownCode == CounterSeed + MaxMembers + 1    \* a scanned code no member carries
Codes == MemberIds \cup {UnknownCode}

(* The storage call sites of each service call; a fault set names the ones
   that come back with an error.  A run sees at most one storage failure. *)
CheckInSites == {"users.select", "subscriptions.select", "session.select",
                 "session.insert", "scan_logs.insert"}
CheckOutSites == {"users.select", "session.select", "session.delete",
                  "scan_logs.insert"}
ScanSites == {"scan.session.select"} \cup CheckInSites \cup CheckOutSites
CheckInAltSites == CheckInSites \cup {"session.select2"}
CheckOutAltSites == {"session.select", "session.select2", "session.delete",
                     "scan_logs.insert"}
ScanAltSites == {"scan.session.select"} \cup CheckInAltSites \cup CheckOutAltSites

RenewSites == {"subscriptions.select", "subscription_history.insert"}
EditSites == RenewSites \cup {"dialog.subscription_history.insert"}

(* the calls that can be in progress side by side *)
Invocations == {1, 2}

FaultSets(sites, mayFail) ==
  IF mayFail THEN {{}} \cup {{c} : c \in sites} ELSE {{}}

DB == [users |-> users, subscriptions |-> subscriptions,
       subscription_history |-> subscription_history, scan_logs |-> scan_logs,
       active_sessions |-> active_sessions, user_id_counter |-> user_id_counter]

----------------------------------------------------------------------------
(* create_tables.sql: the constraints an insert must satisfy *)

ScanLogActions == {"check-in", "check-out"}
ScanLogStatuses == {"success", "expired", "invalid"}
SubscriptionStatuses == {"active", "expired", "cancelled"}

ScanLogRowOk(db, row) ==
  /\ row.user_id \in db.users
  /\ row.action \in ScanLogActions
  /\ row.status \in ScanLogStatuses

(* active_sessions without UNIQUE on user_id *)
ActiveSessionRowOkNoUnique(db, row) ==
  row.user_id \in db.users

ActiveSessionRowOk(db, row) ==
  /\ row.user_id \in db.users
  /\ \A r \in db.active_sessions : r.user_id # row.user_id

(* subscriptions without UNIQUE on user_id *)
SubscriptionRowOkNoUnique(db, row) ==
  /\ row.user_id \in db.users
  /\ row.status \in SubscriptionStatuses

SubscriptionRowOk(db, row) ==
  /\ row.user_id \in db.users
  /\ row.status \in SubscriptionStatuses
  /\ \A r \in db.subscriptions : r.user_id # row.user_id

(* DELETE FROM users: every table references users(user_id) ON DELETE CASCADE *)
CascadeDelete(db, userId) ==
  [db EXCEPT
     !.users = @ \ {userId},
     !.subscriptions = {r \in @ : r.user_id # userId},
     !.subscription_history = {r \in @ : r.user_id # userId},
     !.scan_logs = SelectSeq(@, LAMBDA r : r.user_id # userId),
     !.active_sessions = {r \in @ : r.user_id # userId}]

----------------------------------------------------------------------------
(* storage.service.ts *)

getUserById(db, userId, fail) ==
  LET data == {u \in db.users : u = userId}
  IN IF fail \/ data = {} THEN {} ELSE data

getSubscriptionByUserId(db, userId, fail) ==
  LET rows == {r \in db.subscriptions : r.user_id = userId}
      error == fail \/ Cardinality(rows) > 1      \* maybeSingle on several rows
  IN IF error \/ rows = {} THEN {}
     ELSE {[userId |-> r.user_id, startDate |-> r.start_date, endDate |-> r.end_date,
            status |-> r.status, createdAt |-> r.created_at] : r \in rows}

getActiveSessionByUserId(db, userId, fail) ==
  LET rows == {r \in db.active_sessions : r.user_id = userId}
  IN IF fail \/ rows = {} THEN {}
     ELSE LET r == CHOOSE x \in rows : TRUE     \* limit(1)
          IN {[userId |-> r.user_id, checkInTime |-> r.check_in_time]}

isUserCheckedIn(db, userId, fail) ==
  getActiveSessionByUserId(db, userId, fail) # {}

(* startSession that inserts nothing *)
startSessionDropped(db, session, fail) == db

startSession(db, session, fail) ==
  LET row == [user_id |-> session.userId, check_in_time |-> session.checkInTime]
  IN IF fail \/ ~ActiveSessionRowOk(db, row) THEN db
     ELSE [db EXCEPT !.active_sessions = @ \cup {row}]

(* returns the store and the session handed back (none when null) *)
endSession(db, userId, failSelect, failDelete) ==
  LET session == getActiveSessionByUserId(db, userId, failSelect)
  IN IF session = {} THEN [db |-> db, session |-> {}]
     ELSE IF failDelete THEN [db |-> db, session |-> {}]
     ELSE [db |-> [db EXCEPT !.active_sessions = {r \in @ : r.user_id # userId}],
           session |-> session]

(* addScanLog that returns without inserting *)
addScanLogDropped(db, log, fail) == db

addScanLog(db, log, fail) ==
  LET row == [user_id |-> log.userId, timestamp |-> log.timestamp,
              action |-> log.action, status |-> log.status]
  IN IF fail \/ ~ScanLogRowOk(db, row) THEN db
     ELSE [db EXCEPT !.scan_logs = Append(@, row)]

getScanLogsByUserId(db, userId) ==
  SelectSeq(db.scan_logs, LAMBDA r : r.user_id = userId)

deleteUser(db, userId) == CascadeDelete(db, userId)

addUser(db, userId) ==
  IF userId \in db.users THEN db ELSE [db EXCEPT !.users = @ \cup {userId}]

(* archiveSubscription that keeps one row per member *)
archiveSubscriptionOverwriting(db, subscription, t, fail) ==
  LET row == [id |-> <<subscription.userId, t>>, user_id |-> subscription.userId,
              start_date |-> subscription.startDate, end_date |-> subscription.endDate,
              status |-> subscription.status, created_at |-> subscription.createdAt,
              updated_at |-> t]
  IN IF fail \/ row.user_id \notin db.users THEN db
     ELSE [db EXCEPT !.subscription_history =
             {r \in @ : r.user_id # row.user_id} \cup {row}]

archiveSubscription(db, subscription, t, fail) ==
  LET row == [id |-> <<subscription.userId, t>>, user_id |-> subscription.userId,
              start_date |-> subscription.startDate, end_date |-> subscription.endDate,
              status |-> subscription.status, created_at |-> subscription.createdAt,
              updated_at |-> t]
  IN IF fail
        \/ row.user_id \notin db.users
        \/ \E r \in db.subscription_history : r.id = row.id
     THEN db
     ELSE [db EXCEPT !.subscription_history = @ \cup {row}]

(* addOrUpdateSubscription that does not archive *)
addOrUpdateSubscriptionNoArchive(db, subscription, t, F) ==
  LET existing == getSubscriptionByUserId(db, subscription.userId,
                                          "subscriptions.select" \in F)
  IN IF existing # {}
     THEN [db EXCEPT !.subscriptions =
                {IF r.user_id = subscription.userId
                 THEN [r EXCEPT !.start_date = subscription.startDate,
                                !.end_date = subscription.endDate,
                                !.status = subscription.status]
                 ELSE r : r \in @}]
     ELSE LET row == [user_id |-> subscription.userId,
                      start_date |-> subscription.startDate,
                      end_date |-> subscription.endDate,
                      status |-> subscription.status,
                      created_at |-> subscription.createdAt]
          IN IF SubscriptionRowOk(db, row)
             THEN [db EXCEPT !.subscriptions = @ \cup {row}]
             ELSE db

(* Called at t.  Every awaited storage call is a round trip to the database
   server, over which the clock moves on by a millisecond at the least: the
   select has returned at t + 1, which is when archiveSubscription reads
   Date.now(). *)
addOrUpdateSubscription(db, subscription, t, F) ==
  LET existing == getSubscriptionByUserId(db, subscription.userId,
                                          "subscriptions.select" \in F)
  IN IF existing # {}
     THEN LET db1 == archiveSubscription(db, CHOOSE s \in existing : TRUE, t + 1,
                                         "subscription_history.insert" \in F)
          IN [db1 EXCEPT !.subscriptions =
                {IF r.user_id = subscription.userId
                 THEN [r EXCEPT !.start_date = subscription.startDate,
                                !.end_date = subscription.endDate,
                                !.status = subscription.status]
                 ELSE r : r \in @}]
     ELSE LET row == [user_id |-> subscription.userId,
                      start_date |-> subscription.startDate,
                      end_date |-> subscription.endDate,
                      status |-> subscription.status,
                      created_at |-> subscription.createdAt]
          IN IF SubscriptionRowOk(db, row)
             THEN [db EXCEPT !.subscriptions = @ \cup {row}]
             ELSE db

(* the storage calls addOrUpdateSubscription awaits: select, then archive
   insert and update, or insert *)
addOrUpdateSubscriptionCalls(db, userId, F) ==
  IF getSubscriptionByUserId(db, userId, "subscriptions.select" \in F) # {}
  THEN 3 ELSE 2

(* returns the store and the number handed out (the NNNN of BCF-NNNN) *)
generateUserId(db, fail) ==
  IF fail THEN [db |-> db, id |-> FallbackNumber]
  ELSE LET next == db.user_id_counter + 1
       IN [db |-> [db EXCEPT !.user_id_counter = next], id |-> next]

----------------------------------------------------------------------------
(* subscription.service.ts *)

(* isSubscriptionActive that trusts the stored status alone *)
isSubscriptionActiveStatusOnly(subscription, t) ==
  IF subscription = {} THEN FALSE
  ELSE (CHOOSE x \in subscription : TRUE).status = "active"

(* isSubscriptionActive with endDate > now *)
isSubscriptionActiveStrict(subscription, t) ==
  IF subscription = {} THEN FALSE
  ELSE LET s == CHOOSE x \in subscription : TRUE
       IN s.status = "active" /\ s.endDate > t

isSubscriptionActive(subscription, t) ==
  IF subscription = {} THEN FALSE
  ELSE LET s == CHOOSE x \in subscription : TRUE
       IN s.status = "active" /\ s.endDate >= t

(* setMonth(getMonth() + durationMonths) moves the date on by the length of
   the calendar months it passes, which is not the same for every month.
   A month is far longer than the time any run here covers: its length in
   milliseconds is drawn from beyond the clock's range. *)
MonthSpans == {MaxClock + 1, MaxClock + 2}

createSubscription(userId, durationMonths, span, t) ==
  [userId |-> userId, startDate |-> t, endDate |-> t + durationMonths * span,
   status |-> "active", createdAt |-> t]

(* a renewal returns the store it leaves and the subscription it hands back *)
renewSubscription(db, userId, durationMonths, span, t, F) ==
  LET subscription == createSubscription(userId, durationMonths, span, t)
  IN [db |-> addOrUpdateSubscription(db, subscription, t, F),
      subscription |-> subscription]

renewWalkIn(db, userId, endDate, t, F) ==
  LET subscription == [userId |-> userId, startDate |-> t, endDate |-> endDate,
                       status |-> "active", createdAt |-> t]
  IN [db |-> addOrUpdateSubscription(db, subscription, t, F),
      subscription |-> subscription]

(* Math.ceil(a / b) for b > 0 *)
Ceil(a, b) == -((-a) \div b)

Max(a, b) == IF a >= b THEN a ELSE b

(* getRemainingDays that rounds the days down *)
getRemainingDaysFloor(subscription, t) ==
  IF subscription = {} THEN 0
  ELSE LET s == CHOOSE x \in subscription : TRUE
           diffTime == s.endDate - t
       IN Max(0, diffTime \div MS_PER_DAY)

getRemainingDays(subscription, t) ==
  IF subscription = {} THEN 0
  ELSE LET s == CHOOSE x \in subscription : TRUE
           diffTime == s.endDate - t
       IN Max(0, Ceil(diffTime, MS_PER_DAY))

(* isExpiringSoon without the status test *)
isExpiringSoonAnyStatus(subscription, daysThreshold, t) ==
  IF subscription = {} THEN FALSE
  ELSE LET remaining == getRemainingDays(subscription, t)
       IN remaining > 0 /\ remaining <= daysThreshold

isExpiringSoon(subscription, daysThreshold, t) ==
  IF subscription = {} \/ (CHOOSE x \in subscription : TRUE).status # "active"
  THEN FALSE
  ELSE LET remaining == getRemainingDays(subscription, t)
       IN remaining > 0 /\ remaining <= daysThreshold

(* validateAccess that never reports already-checked-in *)
validateAccessNoSessionCheck(db, userId, t, F) ==
  LET user == getUserById(db, userId, "users.select" \in F)
      subscription == getSubscriptionByUserId(db, userId, "subscriptions.select" \in F)
  IN IF user = {}
     THEN [isValid |-> FALSE, status |-> "invalid",
           message |-> "Invalid QR Code - User not found",
           user |-> {}, subscription |-> {},
           calls |-> {"getUserById"}]
     ELSE IF ~isSubscriptionActive(subscription, t)
     THEN [isValid |-> FALSE, status |-> "expired",
           message |-> "Subscription Expired",
           user |-> user, subscription |-> subscription,
           calls |-> {"getUserById", "getSubscriptionByUserId"}]
     ELSE [isValid |-> TRUE, status |-> "granted", message |-> "Access Granted",
           user |-> user, subscription |-> subscription,
           calls |-> {"getUserById", "getSubscriptionByUserId"}]

validateAccess(db, userId, t, F) ==
  LET user == getUserById(db, userId, "users.select" \in F)
      subscription == getSubscriptionByUserId(db, userId, "subscriptions.select" \in F)
      isCheckedIn == isUserCheckedIn(db, userId, "session.select" \in F)
  IN IF user = {}
     THEN [isValid |-> FALSE, status |-> "invalid",
           message |-> "Invalid QR Code - User not found",
           user |-> {}, subscription |-> {},
           calls |-> {"getUserById"}]
     ELSE IF ~isSubscriptionActive(subscription, t)
     THEN [isValid |-> FALSE, status |-> "expired",
           message |-> "Subscription Expired",
           user |-> user, subscription |-> subscription,
           calls |-> {"getUserById", "getSubscriptionByUserId"}]
     ELSE [isValid |-> TRUE,
           status |-> IF isCheckedIn THEN "already-checked-in" ELSE "granted",
           message |-> IF isCheckedIn THEN "Already Checked In" ELSE "Access Granted",
           user |-> user, subscription |-> subscription,
           calls |-> {"getUserById", "getSubscriptionByUserId", "isUserCheckedIn"}]

----------------------------------------------------------------------------
(* access.service.ts.  A call returns the store it leaves, the result
   {success, message, log} and the storage functions it called. *)

(* a log entry whose status is always success *)
ScanLogAlwaysSuccess(userId, action, status, t) ==
  [userId |-> userId, action |-> action, status |-> "success", timestamp |-> t]

ScanLog(userId, action, status, t) ==
  [userId |-> userId, action |-> action, status |-> status, timestamp |-> t]

(* processCheckIn that undoes the session and reports failure when the log
   write fails *)
processCheckInRollback(db, userId, t, F) ==
  LET validation == validateAccess(db, userId, t, F)
  IN IF validation.user = {}
     THEN [db |-> db, success |-> FALSE,
           message |-> "Invalid QR Code - User not found", log |-> {},
           calls |-> validation.calls]
     ELSE IF ~validation.isValid
     THEN LET log == ScanLog(userId, "not-applicable",
                             IF validation.status = "expired" THEN "expired"
                             ELSE "invalid", t)
          IN [db |-> addScanLog(db, log, "scan_logs.insert" \in F),
              success |-> FALSE, message |-> validation.message, log |-> {log},
              calls |-> validation.calls \cup {"addScanLog"}]
     ELSE IF validation.status = "already-checked-in"
     THEN [db |-> db, success |-> FALSE,
           message |-> "User is already checked in", log |-> {},
           calls |-> validation.calls]
     ELSE LET session == [userId |-> userId, checkInTime |-> t]
              db1 == startSession(db, session, "session.insert" \in F)
              log == ScanLog(userId, "check-in", "success", t)
          IN IF "scan_logs.insert" \in F
             THEN [db |-> db, success |-> FALSE, message |-> "Log failed",
                   log |-> {log},
                   calls |-> validation.calls \cup {"startSession", "addScanLog"}]
             ELSE [db |-> addScanLog(db1, log, FALSE),
                   success |-> TRUE, message |-> "Welcome", log |-> {log},
                   calls |-> validation.calls \cup {"startSession", "addScanLog"}]

processCheckIn(db, userId, t, F) ==
  LET validation == validateAccess(db, userId, t, F)
  IN IF validation.user = {}
     THEN [db |-> db, success |-> FALSE,
           message |-> "Invalid QR Code - User not found", log |-> {},
           calls |-> validation.calls]
     ELSE IF ~validation.isValid
     THEN LET log == ScanLog(userId, "not-applicable",
                             IF validation.status = "expired" THEN "expired"
                             ELSE "invalid", t)
          IN [db |-> addScanLog(db, log, "scan_logs.insert" \in F),
              success |-> FALSE, message |-> validation.message, log |-> {log},
              calls |-> validation.calls \cup {"addScanLog"}]
     ELSE IF validation.status = "already-checked-in"
     THEN [db |-> db, success |-> FALSE,
           message |-> "User is already checked in", log |-> {},
           calls |-> validation.calls]
     ELSE LET session == [userId |-> userId, checkInTime |-> t]
              db1 == startSession(db, session, "session.insert" \in F)
              log == ScanLog(userId, "check-in", "success", t)
          IN [db |-> addScanLog(db1, log, "scan_logs.insert" \in F),
              success |-> TRUE, message |-> "Welcome", log |-> {log},
              calls |-> validation.calls \cup {"startSession", "addScanLog"}]

(* processCheckOut that does not test what endSession returned *)
processCheckOutNoGuard(db, userId, t, F) ==
  LET user == getUserById(db, userId, "users.select" \in F)
      ended == endSession(db, userId, "session.select" \in F, "session.delete" \in F)
      log == ScanLog(userId, "check-out", "success", t)
  IN IF user = {}
     THEN [db |-> db, success |-> FALSE,
           message |-> "Invalid QR Code - User not found", log |-> {},
           calls |-> {"getUserById"}]
     ELSE [db |-> addScanLog(ended.db, log, "scan_logs.insert" \in F),
           success |-> TRUE, message |-> "Goodbye", log |-> {log},
           calls |-> {"getUserById", "endSession", "addScanLog"}]

processCheckOut(db, userId, t, F) ==
  LET user == getUserById(db, userId, "users.select" \in F)
      ended == endSession(db, userId, "session.select" \in F, "session.delete" \in F)
  IN IF user = {}
     THEN [db |-> db, success |-> FALSE,
           message |-> "Invalid QR Code - User not found", log |-> {},
           calls |-> {"getUserById"}]
     ELSE IF ended.session = {}
     THEN [db |-> ended.db, success |-> FALSE,
           message |-> "User is not checked in", log |-> {},
           calls |-> {"getUserById", "endSession"}]
     ELSE LET log == ScanLog(userId, "check-out", "success", t)
          IN [db |-> addScanLog(ended.db, log, "scan_logs.insert" \in F),
              success |-> TRUE, message |-> "Goodbye", log |-> {log},
              calls |-> {"getUserById", "endSession", "addScanLog"}]

WithCall(r, c) == [r EXCEPT !.calls = @ \cup {c}]

(* processScan that always takes the check-in branch *)
processScanAlwaysCheckIn(db, userId, t, F) ==
  WithCall(processCheckIn(db, userId, t, F), "isUserCheckedIn")

processScan(db, userId, t, F) ==
  LET isCheckedIn == isUserCheckedIn(db, userId, "scan.session.select" \in F)
  IN IF isCheckedIn
     THEN WithCall(processCheckOut(db, userId, t, F), "isUserCheckedIn")
     ELSE WithCall(processCheckIn(db, userId, t, F), "isUserCheckedIn")

----------------------------------------------------------------------------
(* The second version of the access service in the repository: it reads the
   session itself instead of asking validateAccess or looking the member up. *)

processCheckInAlt(db, userId, t, F) ==
  LET validation == validateAccess(db, userId, t, F)
      existingSession == getActiveSessionByUserId(db, userId, "session.select2" \in F)
  IN IF validation.user = {}
     THEN [db |-> db, success |-> FALSE,
           message |-> "Invalid QR Code - User not found", log |-> {},
           calls |-> validation.calls]
     ELSE IF ~validation.isValid
     THEN LET log == ScanLog(userId, "not-applicable",
                             IF validation.status = "expired" THEN "expired"
                             ELSE "invalid", t)
          IN [db |-> addScanLog(db, log, "scan_logs.insert" \in F),
              success |-> FALSE, message |-> validation.message, log |-> {log},
              calls |-> validation.calls \cup {"addScanLog"}]
     ELSE IF existingSession # {}
     THEN [db |-> db, success |-> FALSE,
           message |-> "User is already checked in", log |-> {},
           calls |-> validation.calls \cup {"getActiveSessionByUserId"}]
     ELSE LET session == [userId |-> userId, checkInTime |-> t]
              db1 == startSession(db, session, "session.insert" \in F)
              log == ScanLog(userId, "check-in", "success", t)
          IN [db |-> addScanLog(db1, log, "scan_logs.insert" \in F),
              success |-> TRUE, message |-> "Welcome", log |-> {log},
              calls |-> validation.calls
                          \cup {"getActiveSessionByUserId", "startSession", "addScanLog"}]

processCheckOutAlt(db, userId, t, F) ==
  LET session == getActiveSessionByUserId(db, userId, "session.select" \in F)
      ended == endSession(db, userId, "session.select2" \in F, "session.delete" \in F)
  IN IF session = {}
     THEN [db |-> db, success |-> FALSE,
           message |-> "User is not checked in", log |-> {},
           calls |-> {"getActiveSessionByUserId"}]
     ELSE LET log == ScanLog(userId, "check-out", "success", t)
          IN [db |-> addScanLog(ended.db, log, "scan_logs.insert" \in F),
              success |-> TRUE, message |-> "See you Soon", log |-> {log},
              calls |-> {"getActiveSessionByUserId", "endSession", "addScanLog"}]

processScanAlt(db, userId, t, F) ==
  LET activeSession == getActiveSessionByUserId(db, userId, "scan.session.select" \in F)
  IN IF activeSession # {}
     THEN processCheckOutAlt(db, userId, t, F)
     ELSE processCheckInAlt(db, userId, t, F)

----------------------------------------------------------------------------
(* The state machine *)

AccessOps == {"processScan", "processCheckIn", "processCheckOut"}

NoCall == [op |-> "none", userId |-> 0, success |-> FALSE, message |-> "",
           log |-> {}, calls |-> {}]

EvalIdle == [subscription |-> {}, daysThreshold |-> 0, out |-> {}]

NoInvocation == [pc |-> "idle"]

(* useQRScanner as the hook is mounted: bufferRef "", timeoutRef unset,
   lastScanRef 0, scannedCode "", isScanning false; no reset timer pending,
   onScan not yet called, the clock not yet moved *)
ScannerIdle == [buffer |-> <<>>, timeoutRef |-> {}, lastScanRef |-> 0,
                scannedCode |-> <<>>, isScanning |-> FALSE, resets |-> {},
                onScan |-> <<>>, elapses |-> 0]
AllIdle == [p \in Invocations |-> NoInvocation]

Init ==
  /\ users = {}
  /\ subscriptions = {}
  /\ subscription_history = {}
  /\ scan_logs = <<>>
  /\ active_sessions = {}
  /\ user_id_counter = CounterSeed
  /\ now = 0
  /\ build \in {"access.service", "part_000"}
  /\ last = NoCall
  /\ faulted = FALSE
  /\ eval = EvalIdle
  /\ inflight = AllIdle
  /\ scanner = ScannerIdle

Store(db) ==
  /\ users' = db.users
  /\ subscriptions' = db.subscriptions
  /\ subscription_history' = db.subscription_history
  /\ scan_logs' = db.scan_logs
  /\ active_sessions' = db.active_sessions
  /\ user_id_counter' = db.user_id_counter

Returned(op, userId, r, F) ==
  /\ F # {} => ~faulted
  /\ faulted' = (faulted \/ F # {})
  /\ Store(r.db)
  /\ last' = [op |-> op, userId |-> userId, success |-> r.success,
              message |-> r.message, log |-> r.log, calls |-> r.calls]
  /\ UNCHANGED <<now, build, eval, inflight, scanner>>

(* the clock moves on *)
Tick ==
  /\ now < MaxTime
  /\ now' = now + 1
  /\ UNCHANGED <<users, subscriptions, subscription_history, scan_logs,
                 active_sessions, user_id_counter, build, last, faulted, eval,
                 inflight, scanner>>

(* add-member-dialog.tsx handleSubmit: the dates are what the form holds *)
handleSubmit(db, startDate, endDate, t) ==
  LET g == generateUserId(db, FALSE)
      db1 == addUser(g.db, g.id)
      subscription == [userId |-> g.id, startDate |-> startDate, endDate |-> endDate,
                       status |-> "active", createdAt |-> t]
  IN [db |-> addOrUpdateSubscription(db1, subscription, t, {}), success |-> TRUE,
      message |-> "", log |-> {}, calls |-> {}, id |-> g.id]

Register(startDate, endDate) ==
  /\ user_id_counter < CounterSeed + MaxMembers
  /\ LET r == handleSubmit(DB, startDate, endDate, now)
     IN Returned("register", r.id, r, {})

(* the member list's handleDelete *)
DeleteUser(userId) ==
  /\ userId \in users
  /\ Returned("deleteUser", userId,
              [db |-> deleteUser(DB, userId), success |-> TRUE, message |-> "",
               log |-> {}, calls |-> {}], {})

ProcessScan(userId, F) ==
  /\ build = "access.service"
  /\ Len(scan_logs) < MaxLogs
  /\ Returned("processScan", userId, processScan(DB, userId, now, F), F)

ProcessCheckIn(userId, F) ==
  /\ build = "access.service"
  /\ Len(scan_logs) < MaxLogs
  /\ Returned("processCheckIn", userId, processCheckIn(DB, userId, now, F), F)

ProcessCheckOut(userId, F) ==
  /\ build = "access.service"
  /\ Len(scan_logs) < MaxLogs
  /\ Returned("processCheckOut", userId, processCheckOut(DB, userId, now, F), F)

ProcessScanAlt(userId, F) ==
  /\ build = "part_000"
  /\ Len(scan_logs) < MaxLogs
  /\ Returned("processScan", userId, processScanAlt(DB, userId, now, F), F)

ProcessCheckInAlt(userId, F) ==
  /\ build = "part_000"
  /\ Len(scan_logs) < MaxLogs
  /\ Returned("processCheckIn", userId, processCheckInAlt(DB, userId, now, F), F)

ProcessCheckOutAlt(userId, F) ==
  /\ build = "part_000"
  /\ Len(scan_logs) < MaxLogs
  /\ Returned("processCheckOut", userId, processCheckOutAlt(DB, userId, now, F), F)

Admin ==
  \/ Tick
  \/ \E e \in Times : Register(now, e)
  \/ \E u \in MemberIds : DeleteUser(u)

Access(mayFail) ==
  \E u \in Codes :
    \/ \E F \in FaultSets(ScanSites, mayFail) : ProcessScan(u, F)
    \/ \E F \in FaultSets(CheckInSites, mayFail) : ProcessCheckIn(u, F)
    \/ \E F \in FaultSets(CheckOutSites, mayFail) : ProcessCheckOut(u, F)
    \/ \E F \in FaultSets(ScanAltSites, mayFail) : ProcessScanAlt(u, F)
    \/ \E F \in FaultSets(CheckInAltSites, mayFail) : ProcessCheckInAlt(u, F)
    \/ \E F \in FaultSets(CheckOutAltSites, mayFail) : ProcessCheckOutAlt(u, F)

(* every storage call succeeds *)
Next == Admin \/ Access(FALSE)

Spec == Init /\ [][Next]_vars

(* one storage call of the run may fail *)
NextFaults == Admin \/ Access(TRUE)

SpecFaults == Init /\ [][NextFaults]_vars

----------------------------------------------------------------------------
(* Renewals and edits of a member's subscription *)

RenewOps == {"renewSubscription", "renewWalkIn"}

(* the dates a form can hold: one behind every clock reading, one ahead *)
FormDates == {0, MaxClock + 1}

(* the days the renew dialog's date fields can name: yesterday, today and
   tomorrow, counted from the day the clock starts in *)
FormDays == {-1, 0, 1}

(* renew-member-dialog.tsx parseDate: dd/mm/yyyy to new Date(year, month - 1,
   day), the local midnight that day starts with *)
parseDate(day) == day * MS_PER_DAY

compareDateStrings(a, b) ==
  IF parseDate(a) < parseDate(b) THEN -1
  ELSE IF parseDate(a) > parseDate(b) THEN 1 ELSE 0

isEndAfterStart(startDate, endDate) == compareDateStrings(endDate, startDate) >= 0

(* a handler that was called at now and returns at t with subscription
   r.subscription in hand *)
Renewed(op, userId, r, F, t) ==
  /\ t <= MaxClock
  /\ F # {} => ~faulted
  /\ faulted' = (faulted \/ F # {})
  /\ Store(r.db)
  /\ last' = [op |-> op, userId |-> userId, success |-> TRUE, message |-> "",
              log |-> {}, calls |-> {}, subscription |-> r.subscription]
  /\ now' = t
  /\ UNCHANGED <<build, eval, inflight, scanner>>

(* the renew dialog and the member list call renewSubscription for a member
   they list *)
RenewSubscription(userId, durationMonths, span, F) ==
  /\ userId \in users
  /\ Renewed("renewSubscription", userId,
             renewSubscription(DB, userId, durationMonths, span, now, F), F,
             now + addOrUpdateSubscriptionCalls(DB, userId, F))

(* handleRenew with the walk-in fields filled in: the dialog lets it through
   when the end day is on or after the start day, and hands renewWalkIn the
   parsed end; renewWalkIn takes no start *)
RenewWalkIn(userId, startDate, endDate, F) ==
  /\ userId \in users
  /\ isEndAfterStart(startDate, endDate)
  /\ Renewed("renewWalkIn", userId,
             renewWalkIn(DB, userId, parseDate(endDate), now, F), F,
             now + addOrUpdateSubscriptionCalls(DB, userId, F))

(* edit-member-dialog.tsx handleSubmit, called at t: updateUser, then the
   subscription the dialog holds is archived, then a subscription with the
   form's dates goes to addOrUpdateSubscription.  The dialog holds what
   getSubscriptionByUserId gave it.  Returns the store, the new subscription
   and the instant the handler is done. *)
handleSubmitEdit(db, userId, startDate, endDate, t, F) ==
  LET subscription == getSubscriptionByUserId(db, userId, FALSE)
      db1 == IF subscription # {}
             THEN archiveSubscription(db, CHOOSE x \in subscription : TRUE, t + 1,
                                      "dialog.subscription_history.insert" \in F)
             ELSE db
      t1 == IF subscription # {} THEN t + 2 ELSE t + 1
      newSubscription == [userId |-> userId, startDate |-> startDate,
                          endDate |-> endDate, status |-> "active",
                          createdAt |-> t1]
  IN [db |-> addOrUpdateSubscription(db1, newSubscription, t1, F),
      subscription |-> newSubscription,
      t |-> t1 + addOrUpdateSubscriptionCalls(db1, userId, F)]

EditMember(userId, startDate, endDate, F) ==
  /\ userId \in users
  /\ LET r == handleSubmitEdit(DB, userId, startDate, endDate, now, F)
     IN Renewed("editMember", userId, r, F, r.t)

NextRenew ==
  \/ \E e \in Times : Register(now, e)
  \/ \E u \in MemberIds : DeleteUser(u)
  \/ \E u \in MemberIds, F \in FaultSets(RenewSites, TRUE) :
       \/ \E span \in MonthSpans : RenewSubscription(u, 1, span, F)
       \/ \E sd \in FormDays, e \in FormDays : RenewWalkIn(u, sd, e, F)
  \/ \E u \in MemberIds, F \in FaultSets(EditSites, TRUE) :
       \E sd \in FormDates, e \in FormDates : EditMember(u, sd, e, F)

SpecRenew == Init /\ [][NextRenew]_vars

----------------------------------------------------------------------------
(* generateUserId storage call by storage call, called from registration
   screens open side by side.  A screen holds the last_number it read and
   the numbers its calls have returned. *)

InitIds ==
  /\ users = {}
  /\ subscriptions = {}
  /\ subscription_history = {}
  /\ scan_logs = <<>>
  /\ active_sessions = {}
  /\ user_id_counter = CounterSeed
  /\ now = 0
  /\ build = "access.service"
  /\ last = NoCall
  /\ faulted = FALSE
  /\ eval = EvalIdle
  /\ inflight = [p \in Invocations |->
                   [pc |-> "idle", last_number |-> 0, returned |-> <<>>]]
  /\ scanner = ScannerIdle

(* select last_number: on an error the call returns "BCF-1001" *)
GenerateUserIdSelect(p, fail) ==
  /\ inflight[p].pc = "idle"
  /\ Len(inflight[p].returned) < MaxCalls
  /\ fail => ~faulted
  /\ faulted' = (faulted \/ fail)
  /\ inflight' =
       [inflight EXCEPT ![p] =
          IF fail
          THEN [@ EXCEPT !.returned = Append(@, generateUserId(DB, TRUE).id)]
          ELSE [@ EXCEPT !.pc = "update", !.last_number = user_id_counter]]
  /\ UNCHANGED <<users, subscriptions, subscription_history, scan_logs,
                 active_sessions, user_id_counter, now, build, last, eval, scanner>>

(* update last_number = next, then return BCF-next *)
GenerateUserIdUpdate(p) ==
  /\ inflight[p].pc = "update"
  /\ LET next == inflight[p].last_number + 1
     IN /\ user_id_counter' = next
        /\ inflight' = [inflight EXCEPT ![p] =
                          [@ EXCEPT !.pc = "idle",
                                    !.returned = Append(@, next)]]
  /\ UNCHANGED <<users, subscriptions, subscription_history, scan_logs,
                 active_sessions, now, build, last, faulted, eval, scanner>>

NextIds ==
  \E p \in Invocations :
    \/ \E fail \in BOOLEAN : GenerateUserIdSelect(p, fail)
    \/ GenerateUserIdUpdate(p)

SpecIds == InitIds /\ [][NextIds]_vars

----------------------------------------------------------------------------
(* access.service.ts storage call by storage call: invocations run side by
   side and take turns at the points where one awaits the store.  An
   invocation holds what it has read; pc names the storage call it makes
   next.  The store starts with one member registered. *)

Invoked == [pc |-> "idle", op |-> "none", userId |-> 0, reads |-> {},
            log |-> {}, success |-> FALSE, message |-> "", calls |-> {}]

InitRace ==
  /\ \E e \in Times :
       LET db == handleSubmit([users |-> {}, subscriptions |-> {},
                               subscription_history |-> {}, scan_logs |-> <<>>,
                               active_sessions |-> {},
                               user_id_counter |-> CounterSeed], 0, e, 0).db
       IN /\ users = db.users
          /\ subscriptions = db.subscriptions
          /\ subscription_history = db.subscription_history
          /\ scan_logs = db.scan_logs
          /\ active_sessions = db.active_sessions
          /\ user_id_counter = db.user_id_counter
  /\ now \in Times
  /\ build = "access.service"
  /\ last = NoCall
  /\ faulted = FALSE
  /\ eval = EvalIdle
  /\ inflight = [p \in Invocations |-> Invoked]
  /\ scanner = ScannerIdle

(* validateAccess always answering granted *)
validationStatusGranted(isCheckedIn) == "granted"

(* validateAccess: status: isCheckedIn ? "already-checked-in" : "granted" *)
validationStatus(isCheckedIn) ==
  IF isCheckedIn THEN "already-checked-in" ELSE "granted"

At(p, pc) == inflight[p].pc = pc

Goes(p, r) ==
  /\ inflight' = [inflight EXCEPT ![p] = r]
  /\ UNCHANGED <<users, subscriptions, subscription_history, user_id_counter,
                 now, build, last, faulted, eval, scanner>>

Finished(r, success, message) ==
  [r EXCEPT !.pc = "done", !.success = success, !.message = message]

Called(r, c, pc) == [r EXCEPT !.calls = @ \cup {c}, !.pc = pc]

(* the kiosk calls an entry point *)
Invoke(p, op, userId) ==
  /\ At(p, "idle")
  /\ Goes(p, [inflight[p] EXCEPT
                !.op = op, !.userId = userId,
                !.pc = IF op = "processScan" THEN "processScan.isUserCheckedIn"
                       ELSE IF op = "processCheckIn" THEN "getUserById"
                       ELSE "processCheckOut.getUserById"])
  /\ UNCHANGED <<active_sessions, scan_logs>>

(* processScan: isUserCheckedIn, then processCheckOut or processCheckIn *)
ScanIsUserCheckedIn(p) ==
  /\ At(p, "processScan.isUserCheckedIn")
  /\ LET isCheckedIn == isUserCheckedIn(DB, inflight[p].userId, FALSE)
         r == [inflight[p] EXCEPT !.reads = @ \cup {isCheckedIn}]
     IN Goes(p, Called(r, "isUserCheckedIn",
                       IF isCheckedIn THEN "processCheckOut.getUserById"
                       ELSE "getUserById"))
  /\ UNCHANGED <<active_sessions, scan_logs>>

(* validateAccess: getUserById *)
ValidateGetUserById(p) ==
  /\ At(p, "getUserById")
  /\ LET user == getUserById(DB, inflight[p].userId, FALSE)
         r == Called(inflight[p], "getUserById", "getSubscriptionByUserId")
     IN Goes(p, IF user = {}
                THEN Finished(r, FALSE, "Invalid QR Code - User not found")
                ELSE r)
  /\ UNCHANGED <<active_sessions, scan_logs>>

(* validateAccess: getSubscriptionByUserId; processCheckIn builds the denial *)
ValidateGetSubscriptionByUserId(p) ==
  /\ At(p, "getSubscriptionByUserId")
  /\ LET subscription == getSubscriptionByUserId(DB, inflight[p].userId, FALSE)
         r == Called(inflight[p], "getSubscriptionByUserId", "isUserCheckedIn")
     IN Goes(p, IF ~isSubscriptionActive(subscription, now)
                THEN [r EXCEPT
                        !.pc = "addScanLog",
                        !.message = "Subscription Expired",
                        !.log = {ScanLog(r.userId, "not-applicable", "expired", now)}]
                ELSE r)
  /\ UNCHANGED <<active_sessions, scan_logs>>

(* validateAccess: isUserCheckedIn; processCheckIn returns or goes on *)
ValidateIsUserCheckedIn(p) ==
  /\ At(p, "isUserCheckedIn")
  /\ LET isCheckedIn == isUserCheckedIn(DB, inflight[p].userId, FALSE)
         r == Called([inflight[p] EXCEPT !.reads = @ \cup {isCheckedIn}],
                     "isUserCheckedIn", "startSession")
     IN Goes(p, IF validationStatus(isCheckedIn) = "already-checked-in"
                THEN Finished(r, FALSE, "User is already checked in")
                ELSE r)
  /\ UNCHANGED <<active_sessions, scan_logs>>

(* processCheckIn: startSession, then the success log is built *)
StartSession(p) ==
  /\ At(p, "startSession")
  /\ LET r == Called(inflight[p], "startSession", "addScanLog")
         session == [userId |-> r.userId, checkInTime |-> now]
     IN /\ active_sessions' = startSession(DB, session, FALSE).active_sessions
        /\ Goes(p, [r EXCEPT
                      !.success = TRUE, !.message = "Welcome",
                      !.log = {ScanLog(r.userId, "check-in", "success", now)}])
  /\ UNCHANGED scan_logs

(* processCheckOut: getUserById *)
CheckOutGetUserById(p) ==
  /\ At(p, "processCheckOut.getUserById")
  /\ LET user == getUserById(DB, inflight[p].userId, FALSE)
         r == Called(inflight[p], "getUserById", "endSession.select")
     IN Goes(p, IF user = {}
                THEN Finished(r, FALSE, "Invalid QR Code - User not found")
                ELSE r)
  /\ UNCHANGED <<active_sessions, scan_logs>>

(* endSession: getActiveSessionByUserId *)
EndSessionSelect(p) ==
  /\ At(p, "endSession.select")
  /\ LET session == getActiveSessionByUserId(DB, inflight[p].userId, FALSE)
         r == Called(inflight[p], "endSession", "endSession.delete")
     IN Goes(p, IF session = {}
                THEN Finished(r, FALSE, "User is not checked in")
                ELSE r)
  /\ UNCHANGED <<active_sessions, scan_logs>>

(* endSession: delete; processCheckOut builds the success log *)
EndSessionDelete(p) ==
  /\ At(p, "endSession.delete")
  /\ LET r == inflight[p]
     IN /\ active_sessions' = {x \in active_sessions : x.user_id # r.userId}
        /\ Goes(p, [r EXCEPT
                      !.pc = "addScanLog",
                      !.success = TRUE, !.message = "Goodbye",
                      !.log = {ScanLog(r.userId, "check-out", "success", now)}])
  /\ UNCHANGED scan_logs

(* addScanLog with the entry built, then the call returns *)
AddScanLog(p) ==
  /\ At(p, "addScanLog")
  /\ LET r == Called(inflight[p], "addScanLog", "done")
     IN /\ scan_logs' = addScanLog(DB, CHOOSE l \in r.log : TRUE, FALSE).scan_logs
        /\ Goes(p, r)
  /\ UNCHANGED active_sessions

NextRace ==
  \E p \in Invocations :
    \/ \E op \in AccessOps, u \in Codes : Invoke(p, op, u)
    \/ ScanIsUserCheckedIn(p)
    \/ ValidateGetUserById(p)
    \/ ValidateGetSubscriptionByUserId(p)
    \/ ValidateIsUserCheckedIn(p)
    \/ StartSession(p)
    \/ CheckOutGetUserById(p)
    \/ EndSessionSelect(p)
    \/ EndSessionDelete(p)
    \/ AddScanLog(p)

SpecRace == InitRace /\ [][NextRace]_vars

----------------------------------------------------------------------------
(* useQRScanner and the kiosk screen that mounts it.  The scanner sends a
   code's characters in one burst; a burst is taken as one key, named by the
   code it spells.  The buffer is the sequence of the keys held. *)

CodeKeys == {ToString(u) : u \in MemberIds}
CharacterKeys == CodeKeys \cup {" "}             \* e.key.length === 1
Keys == CharacterKeys \cup {"Enter", "Shift"}

RECURSIVE trimStart(_)
trimStart(str) ==
  IF str # <<>> /\ Head(str) = " " THEN trimStart(Tail(str)) ELSE str

RECURSIVE trimEnd(_)
trimEnd(str) ==
  IF str # <<>> /\ str[Len(str)] = " "
  THEN trimEnd(SubSeq(str, 1, Len(str) - 1)) ELSE str

(* String.prototype.trim *)
trim(str) == trimEnd(trimStart(str))

(* a window that lets through a scan made as it closes *)
outsideWindowInclusive(t, lastScan) == t - lastScan >= 500

(* no window at all *)
outsideWindowAlways(t, lastScan) == TRUE

(* now - lastScanRef.current > debounceMs *)
outsideWindow(t, lastScan) == t - lastScan > debounceMs

(* handleKeyPress: the hook's refs and state after the event *)
handleKeyPress(s, key, inInput, t) ==
  IF inInput THEN s                  \* the target is an input or a textarea
  ELSE LET s1 == [s EXCEPT !.timeoutRef = {}]         \* clearTimeout
       IN IF key = "Enter"
          THEN LET code == trim(s1.buffer)
               IN IF code # <<>> /\ outsideWindow(t, s1.lastScanRef)
                  THEN [s1 EXCEPT
                          !.lastScanRef = t,
                          !.scannedCode = code,
                          !.isScanning = TRUE,
                          !.onScan = Append(@, [code |-> code, at |-> t]),
                          !.resets = @ \cup {t + ScanResetMs},
                          !.buffer = <<>>]
                  ELSE [s1 EXCEPT !.buffer = <<>>]
          ELSE IF key \in CharacterKeys
          THEN [s1 EXCEPT !.buffer = Append(@, key),
                          !.timeoutRef = {t + BufferResetMs}]
          ELSE s1

(* the keys of the events drawn: any key on the page, and one key typed into
   an input field, where the listener returns whatever the key *)
EventKeys(inInput) == IF inInput THEN {"Enter"} ELSE Keys

(* the member identifier processScan is handed: the code as scanned *)
ScannedUserId(code) ==
  IF \E u \in Codes : code = <<ToString(u)>>
  THEN CHOOSE u \in Codes : code = <<ToString(u)>>
  ELSE UnknownCode

(* a keypress event reaches the window listener; last holds the key, for an
   Enter the code the buffer spelled, and whether onScan was called *)
Listens(key, inInput) ==
  /\ scanner' = handleKeyPress(scanner, key, inInput, now)
  /\ Len(scanner'.buffer) <= MaxBuffer
  /\ Len(scanner'.onScan) <= MaxScans
  /\ last' = IF inInput THEN last
             ELSE [op |-> "handleKeyPress", key |-> key,
                   code |-> IF key = "Enter" THEN trim(scanner.buffer) ELSE <<>>,
                   onScan |-> scanner'.onScan # scanner.onScan]
  /\ UNCHANGED <<users, subscriptions, subscription_history, scan_logs,
                 active_sessions, user_id_counter, now, build, faulted, eval>>

(* the hook with a callback that does nothing to the store *)
KeyPress(key, inInput) ==
  /\ Listens(key, inInput)
  /\ UNCHANGED inflight

(* the 100 ms timer: bufferRef.current = "" *)
BufferTimeout ==
  /\ \E due \in scanner.timeoutRef : due <= now
  /\ scanner' = [scanner EXCEPT !.buffer = <<>>, !.timeoutRef = {}]
  /\ UNCHANGED <<users, subscriptions, subscription_history, scan_logs,
                 active_sessions, user_id_counter, now, build, last, faulted,
                 eval, inflight>>

(* a 2000 ms timer: resetScanner() *)
ResetScanner ==
  /\ \E due \in scanner.resets :
       /\ due <= now
       /\ scanner' = [scanner EXCEPT !.resets = @ \ {due},
                                     !.scannedCode = <<>>,
                                     !.isScanning = FALSE,
                                     !.buffer = <<>>]
  /\ UNCHANGED <<users, subscriptions, subscription_history, scan_logs,
                 active_sessions, user_id_counter, now, build, last, faulted,
                 eval, inflight>>

(* the screen renders again with a new handleScan: the effect's cleanup
   clears the buffer timer and the listener is added anew *)
EffectCleanup ==
  /\ scanner.timeoutRef # {}
  /\ scanner' = [scanner EXCEPT !.timeoutRef = {}]
  /\ UNCHANGED <<users, subscriptions, subscription_history, scan_logs,
                 active_sessions, user_id_counter, now, build, last, faulted,
                 eval, inflight>>

PendingTimers == scanner.timeoutRef \cup scanner.resets

(* the waits the clock makes: the debounce window exactly, a millisecond
   more, or up to the next timer *)
Waits ==
  {debounceMs, debounceMs + 1}
    \cup {due - now : due \in {x \in PendingTimers :
                                 \A y \in PendingTimers : x <= y}}

(* time passes; a timer runs before the clock passes its due time *)
Elapse(d) ==
  /\ d > 0
  /\ scanner.elapses < MaxElapses
  /\ \A due \in PendingTimers : now + d <= due
  /\ now' = now + d
  /\ scanner' = [scanner EXCEPT !.elapses = @ + 1]
  /\ UNCHANGED <<users, subscriptions, subscription_history, scan_logs,
                 active_sessions, user_id_counter, build, last, faulted, eval,
                 inflight>>

InitScanner ==
  /\ users = {}
  /\ subscriptions = {}
  /\ subscription_history = {}
  /\ scan_logs = <<>>
  /\ active_sessions = {}
  /\ user_id_counter = CounterSeed
  /\ now = PageLoad
  /\ build = "access.service"
  /\ last = NoCall
  /\ faulted = FALSE
  /\ eval = EvalIdle
  /\ inflight = AllIdle
  /\ scanner = ScannerIdle

NextScanner ==
  \/ \E inInput \in BOOLEAN :
       \E key \in EventKeys(inInput) : KeyPress(key, inInput)
  \/ BufferTimeout
  \/ ResetScanner
  \/ EffectCleanup
  \/ \E d \in Waits : Elapse(d)

SpecScanner == InitScanner /\ [][NextScanner]_vars

(* The kiosk screen: useQRScanner(handleScan).  handleScan awaits
   processScan(code), so every onScan call starts a processScan that goes on
   storage call by storage call while later events are handled.  The n-th
   onScan call is followed as invocation n. *)

(* what the scanner device sends: codes and Enter *)
ScannerKeys == CodeKeys \cup {"Enter"}

handleScan(code) ==
  [Invoked EXCEPT !.op = "processScan", !.userId = ScannedUserId(code),
                  !.pc = "processScan.isUserCheckedIn"]

KioskKeyPress(key) ==
  /\ Listens(key, FALSE)
  /\ IF scanner'.onScan # scanner.onScan
     THEN LET p == Len(scanner'.onScan)
          IN /\ p \in Invocations
             /\ inflight' = [inflight EXCEPT
                               ![p] = handleScan(scanner'.onScan[p].code)]
     ELSE UNCHANGED inflight

(* the page opens with one member registered, the subscription running *)
InitKiosk ==
  /\ LET db == handleSubmit([users |-> {}, subscriptions |-> {},
                             subscription_history |-> {}, scan_logs |-> <<>>,
                             active_sessions |-> {},
                             user_id_counter |-> CounterSeed],
                            PageLoad, PageLoad + MS_PER_DAY, PageLoad).db
     IN /\ users = db.users
        /\ subscriptions = db.subscriptions
        /\ subscription_history = db.subscription_history
        /\ scan_logs = db.scan_logs
        /\ active_sessions = db.active_sessions
        /\ user_id_counter = db.user_id_counter
  /\ now = PageLoad
  /\ build = "access.service"
  /\ last = NoCall
  /\ faulted = FALSE
  /\ eval = EvalIdle
  /\ inflight = [p \in Invocations |-> Invoked]
  /\ scanner = ScannerIdle

NextKiosk ==
  \/ \E key \in ScannerKeys : KioskKeyPress(key)
  \/ BufferTimeout
  \/ ResetScanner
  \/ \E d \in Waits : Elapse(d)
  \/ \E p \in Invocations :
       \/ ScanIsUserCheckedIn(p)
       \/ ValidateGetUserById(p)
       \/ ValidateGetSubscriptionByUserId(p)
       \/ ValidateIsUserCheckedIn(p)
       \/ StartSession(p)
       \/ CheckOutGetUserById(p)
       \/ EndSessionSelect(p)
       \/ EndSessionDelete(p)
       \/ AddScanLog(p)

SpecKiosk == InitKiosk /\ [][NextKiosk]_vars

----------------------------------------------------------------------------
(* The subscription evaluator on drawn inputs *)

EvalInstants ==
  {i \in {d * MS_PER_DAY + o : d \in 0..EvalDays, o \in {-1, 0, 1}} : i >= 0}

EvalSubscriptions ==
  {{}} \cup {{[userId |-> CounterSeed + 1, startDate |-> 0, endDate |-> e,
               status |-> s, createdAt |-> 0]} :
             e \in EvalInstants, s \in SubscriptionStatuses}

InitEval ==
  /\ users = {}
  /\ subscriptions = {}
  /\ subscription_history = {}
  /\ scan_logs = <<>>
  /\ active_sessions = {}
  /\ user_id_counter = CounterSeed
  /\ now \in EvalInstants
  /\ build = "access.service"
  /\ last = NoCall
  /\ faulted = FALSE
  /\ inflight = AllIdle
  /\ scanner = ScannerIdle
  /\ \E sub \in EvalSubscriptions, th \in 0..MaxThreshold :
       eval = [subscription |-> sub, daysThreshold |-> th, out |-> {}]

Evaluate ==
  /\ eval.out = {}
  /\ eval' = [eval EXCEPT !.out =
                {[isActive |-> isSubscriptionActive(eval.subscription, now),
                  remainingDays |-> getRemainingDays(eval.subscription, now),
                  expiringSoon |-> isExpiringSoon(eval.subscription,
                                                  eval.daysThreshold, now)]}]
  /\ UNCHANGED <<users, subscriptions, subscription_history, scan_logs,
                 active_sessions, user_id_counter, now, build, last, faulted,
                 inflight, scanner>>

NextEval == Evaluate

SpecEval == InitEval /\ [][NextEval]_vars

----------------------------------------------------------------------------
(* scanner-interface.tsx calculateGymHours on drawn lists of logs.  A period
   start is a set: empty for null. *)

RECURSIVE InsertByTimestamp(_, _)
(* where the stable sort puts log: behind every entry not later than it *)
InsertByTimestamp(sorted, log) ==
  IF sorted = <<>> THEN <<log>>
  ELSE IF sorted[Len(sorted)].timestamp <= log.timestamp THEN Append(sorted, log)
  ELSE Append(InsertByTimestamp(SubSeq(sorted, 1, Len(sorted) - 1), log),
              sorted[Len(sorted)])

RECURSIVE SortByTimestamp(_)
(* logs.sort((a, b) => time(a) - time(b)), which keeps ties in their order *)
SortByTimestamp(logs) ==
  IF logs = <<>> THEN <<>>
  ELSE InsertByTimestamp(SortByTimestamp(SubSeq(logs, 1, Len(logs) - 1)),
                         logs[Len(logs)])

RECURSIVE calculateForPeriodNoReset(_, _, _, _, _)
(* calculateForPeriod that keeps lastIn after a check-out *)
calculateForPeriodNoReset(sorted, periodStart, i, totalMs, lastIn) ==
  IF i > Len(sorted) THEN totalMs
  ELSE LET log == sorted[i]
           logTime == log.timestamp
       IN IF \E ps \in periodStart : logTime < ps
          THEN calculateForPeriodNoReset(sorted, periodStart, i + 1, totalMs, lastIn)
          ELSE LET lastIn1 == IF log.action = "check-in" THEN {logTime} ELSE lastIn
               IN IF log.action = "check-out" /\ lastIn1 # {}
                  THEN calculateForPeriodNoReset(
                         sorted, periodStart, i + 1,
                         totalMs + (logTime - (CHOOSE x \in lastIn1 : TRUE)), lastIn1)
                  ELSE calculateForPeriodNoReset(sorted, periodStart, i + 1,
                                                 totalMs, lastIn1)

RECURSIVE calculateForPeriodSkipOuts(_, _, _, _, _)
(* calculateForPeriod that skips only the check-outs before the period *)
calculateForPeriodSkipOuts(sorted, periodStart, i, totalMs, lastIn) ==
  IF i > Len(sorted) THEN totalMs
  ELSE LET log == sorted[i]
           logTime == log.timestamp
       IN IF log.action = "check-out" /\ \E ps \in periodStart : logTime < ps
          THEN calculateForPeriodSkipOuts(sorted, periodStart, i + 1, totalMs, lastIn)
          ELSE LET lastIn1 == IF log.action = "check-in" THEN {logTime} ELSE lastIn
               IN IF log.action = "check-out" /\ lastIn1 # {}
                  THEN calculateForPeriodSkipOuts(
                         sorted, periodStart, i + 1,
                         totalMs + (logTime - (CHOOSE x \in lastIn1 : TRUE)), {})
                  ELSE calculateForPeriodSkipOuts(sorted, periodStart, i + 1,
                                                  totalMs, lastIn1)

RECURSIVE calculateForPeriodFrom(_, _, _, _, _)
(* the loop of calculateForPeriod from entry i on, with totalMs and lastIn
   as the entries before i left them *)
calculateForPeriodFrom(sorted, periodStart, i, totalMs, lastIn) ==
  IF i > Len(sorted) THEN totalMs
  ELSE LET log == sorted[i]
           logTime == log.timestamp
       IN IF \E ps \in periodStart : logTime < ps
          THEN calculateForPeriodFrom(sorted, periodStart, i + 1, totalMs, lastIn)
          ELSE LET lastIn1 == IF log.action = "check-in" THEN {logTime} ELSE lastIn
               IN IF log.action = "check-out" /\ lastIn1 # {}
                  THEN calculateForPeriodFrom(
                         sorted, periodStart, i + 1,
                         totalMs + (logTime - (CHOOSE x \in lastIn1 : TRUE)), {})
                  ELSE calculateForPeriodFrom(sorted, periodStart, i + 1,
                                              totalMs, lastIn1)

calculateForPeriod(sorted, periodStart) ==
  calculateForPeriodFrom(sorted, periodStart, 1, 0, {})

HoursActions == {"check-in", "check-out", "not-applicable"}
HoursLogs == [action : HoursActions, timestamp : 0..MaxStamp]

RECURSIVE LogLists(_)
LogLists(n) ==
  IF n = 0 THEN {<<>>}
  ELSE LogLists(n - 1)
         \cup {Append(l, x) : l \in {m \in LogLists(n - 1) : Len(m) = n - 1},
                              x \in HoursLogs}

InitHours ==
  /\ users = {}
  /\ subscriptions = {}
  /\ subscription_history = {}
  /\ scan_logs = <<>>
  /\ active_sessions = {}
  /\ user_id_counter = CounterSeed
  /\ now = 0
  /\ build = "access.service"
  /\ last = NoCall
  /\ faulted = FALSE
  /\ inflight = AllIdle
  /\ scanner = ScannerIdle
  /\ \E logs \in LogLists(MaxHoursLogs), p1 \in 0..(MaxStamp + 1),
        p2 \in 0..(MaxStamp + 1) :
       /\ p1 <= p2
       /\ eval = [logs |-> logs, periodStart |-> p1, laterStart |-> p2, out |-> {}]

(* calculateGymHours: sort, then a total per period *)
CalculateGymHours ==
  /\ eval.out = {}
  /\ LET sorted == SortByTimestamp(eval.logs)
     IN eval' = [eval EXCEPT !.out =
                   {[sorted |-> sorted,
                     all |-> calculateForPeriod(sorted, {}),
                     period |-> calculateForPeriod(sorted, {eval.periodStart}),
                     later |-> calculateForPeriod(sorted, {eval.laterStart})]}]
  /\ UNCHANGED <<users, subscriptions, subscription_history, scan_logs,
                 active_sessions, user_id_counter, now, build, last, faulted,
                 inflight, scanner>>

NextHours == CalculateGymHours

SpecHours == InitHours /\ [][NextHours]_vars

----------------------------------------------------------------------------
(* What the claims speak of *)

SessionsOf(userId) == {r \in active_sessions : r.user_id = userId}
HasSession(userId) == SessionsOf(userId) # {}
CurrentSubscription(userId) == getSubscriptionByUserId(DB, userId, FALSE)
SubscriptionLapsed(userId) ==
  \E s \in CurrentSubscription(userId) : s.endDate < now
SubscriptionActive(userId) == isSubscriptionActive(CurrentSubscription(userId), now)

(* a step that is one call of the entry point, every storage call succeeding *)
ScanStep(userId) == ProcessScan(userId, {}) \/ ProcessScanAlt(userId, {})
CheckInStep(userId) == ProcessCheckIn(userId, {}) \/ ProcessCheckInAlt(userId, {})
CheckOutStep(userId) == ProcessCheckOut(userId, {}) \/ ProcessCheckOutAlt(userId, {})
AccessStep(userId) == ScanStep(userId) \/ CheckInStep(userId) \/ CheckOutStep(userId)

LogAction(r) == {l.action : l \in r.log}
LogStatus(r) == {l.status : l \in r.log}
Granted(r, action) ==
  r.success /\ LogAction(r) = {action} /\ LogStatus(r) = {"success"}
DeniedExpired(r) ==
  /\ ~r.success
  /\ r.message = "Subscription Expired"
  /\ LogAction(r) = {"not-applicable"}
  /\ LogStatus(r) = {"expired"}

(* the member's stored success logs of one action *)
SuccessLogs(userId, action) ==
  {i \in 1..Len(scan_logs) :
     /\ scan_logs[i].user_id = userId
     /\ scan_logs[i].action = action
     /\ scan_logs[i].status = "success"}

(* a processScan the scanner started that has not returned; the time of the
   onScan call that started it *)
InProgress(p) == inflight[p].pc \notin {"idle", "done"}
StartedAt(p) == scanner.onScan[p].at

SubscriptionRows(userId) == {r \in subscriptions : r.user_id = userId}
HistoryOf(userId) == {r \in subscription_history : r.user_id = userId}

(* the check-in a check-out at place j closes: the latest check-in before j
   with no check-out between the two *)
PendingIn(sorted, j) ==
  {i \in 1..(j - 1) :
     /\ sorted[i].action = "check-in"
     /\ \A k \in (i + 1)..(j - 1) : sorted[k].action = "not-applicable"}

IntervalAt(sorted, j) ==
  IF sorted[j].action = "check-out" /\ PendingIn(sorted, j) # {}
  THEN sorted[j].timestamp - sorted[CHOOSE i \in PendingIn(sorted, j) : TRUE].timestamp
  ELSE 0

RECURSIVE PairedTotal(_, _)
(* the intervals closed by the first n entries, summed *)
PairedTotal(sorted, n) ==
  IF n = 0 THEN 0 ELSE PairedTotal(sorted, n - 1) + IntervalAt(sorted, n)

Occurrences(logs, x) == Cardinality({i \in 1..Len(logs) : logs[i] = x})

(* a step that is one renewal or one save of the edit dialog, every storage
   call succeeding *)
RenewStep(userId) ==
  /\ last'.op \in RenewOps
  /\ last'.userId = userId
  /\ faulted' = faulted
  /\ \/ \E span \in MonthSpans : RenewSubscription(userId, 1, span, {})
     \/ \E sd \in FormDays, e \in FormDays : RenewWalkIn(userId, sd, e, {})
EditStep(userId) ==
  /\ last'.op = "editMember"
  /\ last'.userId = userId
  /\ faulted' = faulted
  /\ \E sd \in FormDates, e \in FormDates : EditMember(userId, sd, e, {})

----------------------------------------------------------------------------
(* C1: after any sequence of processScan, processCheckIn and processCheckOut
   calls run one at a time, with the clock advancing and storage calls
   allowed to fail, the store holds at most one Active Session row for every
   member. *)
C1_AtMostOneSession ==
  \A u \in Codes : Cardinality(SessionsOf(u)) <= 1

(* a check-in that went as far as the insert while the member's earlier
   session was still in the table *)
C1_Witness ==
  /\ last.op = "processCheckIn"
  /\ last.success
  /\ \E r \in SessionsOf(last.userId) :
       \E l \in last.log : r.check_in_time < l.timestamp

(* C2, as the specification states it: for a member whose subscription end
   is in the past every processScan is denied as expired and neither creates
   nor deletes an Active Session, with or without an Active Session. *)
C2_Original ==
  [][\A u \in MemberIds :
       (ScanStep(u) /\ SubscriptionLapsed(u))
         => (DeniedExpired(last') /\ active_sessions' = active_sessions)]_vars

(* C2, amended: for a member whose subscription end is in the past,
   processScan with no Active Session is denied as expired/not-applicable
   and leaves the sessions as they are; with an Active Session it is a
   granted check-out that deletes that session.  No session is ever
   created. *)
C2_ExpiredScan ==
  [][\A u \in MemberIds :
       (ScanStep(u) /\ SubscriptionLapsed(u))
         => IF HasSession(u)
            THEN /\ Granted(last', "check-out")
                 /\ active_sessions' = active_sessions \ SessionsOf(u)
            ELSE /\ DeniedExpired(last')
                 /\ active_sessions' = active_sessions]_vars

C2_Witness ==
  /\ last.op = "processScan"
  /\ last.userId \in users
  /\ DeniedExpired(last)
  /\ SubscriptionLapsed(last.userId)
  /\ ~HasSession(last.userId)

(* C3: for a member with an active subscription, processScan with no Active
   Session is a granted check-in that leaves the session present; the
   processScan right after a granted check-in scan is a granted check-out
   that leaves it absent; the processScan right after that check-out is a
   granted check-in again. *)
C3_Toggle ==
  [][\A u \in MemberIds :
       (ScanStep(u) /\ SubscriptionActive(u))
         => /\ ~HasSession(u)
                 => (Granted(last', "check-in") /\ HasSession(u)')
            /\ (last.op = "processScan" /\ last.userId = u
                  /\ Granted(last, "check-in"))
                 => (Granted(last', "check-out") /\ ~HasSession(u)')
            /\ (last.op = "processScan" /\ last.userId = u
                  /\ Granted(last, "check-out"))
                 => (Granted(last', "check-in") /\ HasSession(u)')]_vars

(* the third scan has returned: check-in, check-out, check-in are logged *)
C3_Witness ==
  /\ last.op = "processScan"
  /\ Granted(last, "check-in")
  /\ HasSession(last.userId)
  /\ LET mine == getScanLogsByUserId(DB, last.userId)
     IN /\ Len(mine) = 3
        /\ <<mine[1].action, mine[2].action, mine[3].action>>
             = <<"check-in", "check-out", "check-in">>

(* C4: with every storage call succeeding, a processCheckIn, processCheckOut
   or processScan call that returns success appends exactly one Scan Log
   Entry, a check-in or check-out with status success for that member; a
   call that ends in an already-checked-in or not-checked-in conflict
   appends none. *)
C4_LogPerOutcome ==
  [][\A u \in Codes :
       AccessStep(u)
         => /\ last'.success
                 => /\ Len(scan_logs') = Len(scan_logs) + 1
                    /\ SubSeq(scan_logs', 1, Len(scan_logs)) = scan_logs
                    /\ LET row == scan_logs'[Len(scan_logs')]
                       IN /\ row.user_id = u
                          /\ row.action \in {"check-in", "check-out"}
                          /\ row.status = "success"
            /\ last'.message \in {"User is already checked in",
                                  "User is not checked in"}
                 => scan_logs' = scan_logs]_vars

C4_Witness ==
  /\ last.op \in AccessOps
  /\ last.success
  /\ Len(scan_logs) >= 1
  /\ scan_logs[Len(scan_logs)].user_id = last.userId
  /\ scan_logs[Len(scan_logs)].status = "success"

(* C5: a scan denied because the subscription is not active writes exactly
   one Scan Log Entry, action not-applicable and status expired, to the
   scan log table, where listing the member's logs finds it. *)
C5_ExpiredLogged ==
  [][\A u \in MemberIds :
       (AccessStep(u) /\ last'.message = "Subscription Expired")
         => /\ Len(scan_logs') = Len(scan_logs) + 1
            /\ LET mine == getScanLogsByUserId(DB', u)
               IN /\ Len(mine) >= 1
                  /\ mine[Len(mine)].action = "not-applicable"
                  /\ mine[Len(mine)].status = "expired"]_vars

(* C6: processCheckIn for a member with an active subscription and an
   Active Session returns the non-granting "already checked in" result,
   leaves the Active Session table as it is and writes no Scan Log Entry. *)
C6_AlreadyCheckedIn ==
  [][\A u \in MemberIds :
       (CheckInStep(u) /\ SubscriptionActive(u) /\ HasSession(u))
         => /\ ~last'.success
            /\ last'.message = "User is already checked in"
            /\ last'.log = {}
            /\ active_sessions' = active_sessions
            /\ scan_logs' = scan_logs]_vars

C6_Witness ==
  /\ last.op = "processCheckIn"
  /\ last.message = "User is already checked in"
  /\ HasSession(last.userId)
  /\ SubscriptionActive(last.userId)

(* C7: processCheckOut for an existing member with no Active Session
   returns the non-granting "not checked in" result, writes no Scan Log
   Entry and leaves sessions, logs and subscriptions as they are. *)
C7_NotCheckedIn ==
  [][\A u \in MemberIds :
       (CheckOutStep(u) /\ u \in users /\ ~HasSession(u))
         => /\ ~last'.success
            /\ last'.message = "User is not checked in"
            /\ last'.log = {}
            /\ active_sessions' = active_sessions
            /\ scan_logs' = scan_logs
            /\ subscriptions' = subscriptions
            /\ subscription_history' = subscription_history]_vars

C7_Witness ==
  /\ last.op = "processCheckOut"
  /\ last.userId \in users
  /\ last.message = "User is not checked in"
  /\ ~HasSession(last.userId)

(* C8: for an identifier that resolves to no member, processScan,
   processCheckIn and processCheckOut all return the same non-granting
   user-not-found result, look up no subscription, create or delete no
   Active Session and write no Scan Log Entry. *)
C8_UnknownMember ==
  [][\A u \in Codes :
       (AccessStep(u) /\ u \notin users)
         => /\ ~last'.success
            /\ last'.message = "Invalid QR Code - User not found"
            /\ last'.log = {}
            /\ "getSubscriptionByUserId" \notin last'.calls
            /\ active_sessions' = active_sessions
            /\ scan_logs' = scan_logs]_vars

(* C9: isSubscriptionActive is true exactly when the subscription is
   present, its status is active and its end is at or after the current
   instant. *)
C9_IsActive ==
  \A o \in eval.out :
    /\ o.isActive = (\E s \in eval.subscription :
                       s.status = "active" /\ s.endDate >= now)
    /\ eval.subscription = {} => ~o.isActive
    /\ (\E s \in eval.subscription :
          s.status \in {"expired", "cancelled"} /\ s.endDate > now) => ~o.isActive
    /\ (\E s \in eval.subscription :
          s.status = "active" /\ s.endDate = now) => o.isActive

(* evaluated on an active subscription that ends at this very instant *)
C9_Witness ==
  \E o \in eval.out, s \in eval.subscription :
    s.status = "active" /\ s.endDate = now /\ o.isActive

(* C10: isExpiringSoon(sub, threshold) is true exactly when
   isSubscriptionActive(sub) is true and 0 < getRemainingDays(sub) <=
   threshold. *)
C10_ExpiringSoon ==
  \A o \in eval.out :
    o.expiringSoon = (/\ o.isActive
                      /\ 0 < o.remainingDays
                      /\ o.remainingDays <= eval.daysThreshold)

C10_Witness ==
  \E o \in eval.out : o.expiringSoon /\ o.remainingDays = eval.daysThreshold

(* C11: getRemainingDays is 0 for an absent subscription and otherwise the
   larger of 0 and the least whole number of days that covers end - now; it
   is never negative, is 0 whenever end <= now and is at least 1 whenever
   end > now. *)
C11_RemainingDays ==
  \A o \in eval.out :
    /\ eval.subscription = {} => o.remainingDays = 0
    /\ \A s \in eval.subscription :
         LET days == CHOOSE n \in (-(EvalDays + 1))..(EvalDays + 1) :
                       /\ n * MS_PER_DAY >= s.endDate - now
                       /\ (n - 1) * MS_PER_DAY < s.endDate - now
         IN /\ o.remainingDays = (IF days > 0 THEN days ELSE 0)
            /\ o.remainingDays >= 0
            /\ s.endDate <= now => o.remainingDays = 0
            /\ s.endDate > now => o.remainingDays >= 1

(* evaluated one millisecond before the end: one day remains *)
C11_Witness ==
  \E o \in eval.out, s \in eval.subscription :
    s.endDate = now + 1 /\ o.remainingDays = 1

(* C12: a renewSubscription or renewWalkIn for a member who has a current
   subscription adds exactly one Subscription History row, whose member,
   start, end, status and creation timestamp are those of the current row
   before the renewal, and leaves every earlier history row as it was. *)
C12_RenewalArchives ==
  [][\A u \in MemberIds :
       (RenewStep(u) /\ CurrentSubscription(u) # {})
         => \E h \in subscription_history' :
              /\ h \notin subscription_history
              /\ subscription_history' = subscription_history \cup {h}
              /\ \E row \in SubscriptionRows(u) :
                   /\ h.user_id = row.user_id
                   /\ h.start_date = row.start_date
                   /\ h.end_date = row.end_date
                   /\ h.status = row.status
                   /\ h.created_at = row.created_at]_vars

(* a renewal made when the member's history already held a row *)
C12_Witness ==
  /\ last.op \in RenewOps
  /\ ~faulted
  /\ Cardinality(HistoryOf(last.userId)) >= 2

(* C13: after renewSubscription or renewWalkIn has returned subscription S
   for a member who had a current subscription, getSubscriptionByUserId
   returns a record equal to S in member, start, end, status and creation
   timestamp. *)
C13_RenewedIsCurrent ==
  [][\A u \in MemberIds :
       (RenewStep(u) /\ CurrentSubscription(u) # {})
         => CurrentSubscription(u)' = {last'.subscription}]_vars

(* C14: after any sequence of registrations, edits and renewals, with the
   select inside addOrUpdateSubscription allowed to fail, every member has
   at most one current Subscription row. *)
C14_OneCurrentRow ==
  \A u \in MemberIds : Cardinality(SubscriptionRows(u)) <= 1

(* a renewal or edit whose select failed: it went to the insert while the
   member's row was there, and the row still holds the old dates *)
C14_Witness ==
  /\ faulted
  /\ last.op \in RenewOps \cup {"editMember"}
  /\ \E r \in SubscriptionRows(last.userId) :
       r.start_date # last.subscription.startDate
         \/ r.end_date # last.subscription.endDate

(* C15, as the specification states it: a Subscription History row, once
   written, stays in the store unchanged whatever operation follows,
   deleteUser for its member included. *)
C15_Original ==
  [][\A h \in subscription_history : h \in subscription_history']_vars

(* C15, amended: renewals, member edits and registrations leave every
   Subscription History row in the store unchanged; deleteUser removes the
   history rows of the member it deletes, and only those. *)
C15_HistoryKept ==
  [][/\ \A u \in MemberIds :
          DeleteUser(u)
            => subscription_history' = subscription_history \ HistoryOf(u)
     /\ ~(\E u \in MemberIds : DeleteUser(u))
          => \A h \in subscription_history : h \in subscription_history']_vars

(* the edit dialog was saved for a member whose history held a row *)
C15_Witness ==
  /\ last.op = "editMember"
  /\ ~faulted
  /\ Cardinality(HistoryOf(last.userId)) >= 3

(* C16: no two calls of generateUserId return the same identifier, whether
   the calls run one after another or interleave between the counter read
   and the counter update, and whether or not a counter read fails. *)
C16_DistinctIds ==
  \A p \in Invocations, q \in Invocations :
    \A i \in 1..Len(inflight[p].returned), j \in 1..Len(inflight[q].returned) :
      (p # q \/ i # j) => inflight[p].returned[i] # inflight[q].returned[j]

(* C17: every Scan Log Entry the access service builds pairs action
   not-applicable only with status expired or invalid, and action check-in
   or check-out only with status success. *)
C17_LogPairs ==
  \A l \in last.log :
    /\ l.action = "not-applicable" => l.status \in {"expired", "invalid"}
    /\ l.action \in {"check-in", "check-out"} => l.status = "success"

(* a denial has built its entry *)
C17_Witness ==
  /\ last.op \in AccessOps
  /\ \E l \in last.log : l.action = "not-applicable" /\ l.status = "expired"

(* C18: while the member's subscription row is not rewritten, a subscription
   whose end the clock has passed stays passed, and every processCheckIn for
   that member is denied as expired; neither the clock moving on nor any
   access call changes the stored rows, so the status still reads what it
   read before. *)
C18_LapsedStaysDenied ==
  [][/\ \A u \in MemberIds :
          /\ (CheckInStep(u) /\ SubscriptionLapsed(u)) => DeniedExpired(last')
          /\ (SubscriptionLapsed(u) /\ SubscriptionRows(u)' = SubscriptionRows(u))
               => SubscriptionLapsed(u)'
     /\ (Tick \/ \E c \in Codes : AccessStep(c))
          => subscriptions' = subscriptions]_vars

(* denied as expired while the stored status reads active *)
C18_Witness ==
  /\ last.op = "processCheckIn"
  /\ DeniedExpired(last)
  /\ \E r \in SubscriptionRows(last.userId) :
       r.status = "active" /\ r.end_date < now

(* C19: when only the scan-log write of a call fails, a check-in that
   reached startSession leaves the session present and returns its granted
   result, a check-out that reached endSession leaves the session absent and
   returns its granted result, and no log row is stored. *)
C19_NoRollback ==
  [][\A u \in MemberIds :
       LET F == {"scan_logs.insert"}
           scan == ProcessScan(u, F) \/ ProcessScanAlt(u, F)
           checkIn == \/ ProcessCheckIn(u, F) \/ ProcessCheckInAlt(u, F)
                      \/ (scan /\ ~HasSession(u))
           checkOut == \/ ProcessCheckOut(u, F) \/ ProcessCheckOutAlt(u, F)
                       \/ (scan /\ HasSession(u))
       IN (~faulted /\ faulted' /\ last'.userId = u)    \* a call for u with a failure
            => /\ (SubscriptionActive(u) /\ ~HasSession(u) /\ checkIn)
                    => /\ Granted(last', "check-in")
                       /\ HasSession(u)'
                       /\ scan_logs' = scan_logs
               /\ (HasSession(u) /\ checkOut)
                    => /\ Granted(last', "check-out")
                       /\ ~HasSession(u)'
                       /\ scan_logs' = scan_logs]_vars

(* a granted check-in whose session is in the table and whose log is not *)
C19_Witness ==
  /\ faulted
  /\ last.op = "processCheckIn"
  /\ last.success
  /\ "addScanLog" \in last.calls
  /\ HasSession(last.userId)
  /\ Len(scan_logs) = 0

(* C20: an invocation calls startSession on the strength of what it read
   itself: every invocation that has called startSession read "no active
   session" each time it looked, whatever the table holds by the time of
   the call.  So two processScan or processCheckIn invocations for one
   member with an active subscription and no Active Session, taking turns
   at the storage calls, can both read "no active session" and both call
   startSession; C20_Witness is that run. *)
C20_StartAfterOwnRead ==
  \A p \in Invocations :
    "startSession" \in inflight[p].calls => inflight[p].reads = {FALSE}

(* both invocations, for the same member, have read no session and have
   called startSession *)
C20_Witness ==
  \E u \in MemberIds :
    \A p \in Invocations :
      /\ inflight[p].userId = u
      /\ inflight[p].op \in {"processScan", "processCheckIn"}
      /\ inflight[p].reads = {FALSE}
      /\ "startSession" \in inflight[p].calls

(* C22: the gym-hours total with no period start is computed on the logs
   sorted by ascending timestamp and equals the sum, over every check-out
   that has a check-in before it with no check-out in between, of the
   check-out's time minus the time of the latest such check-in; so a
   trailing check-in adds nothing, of consecutive check-ins the later one is
   used, a check-out with no pending check-in adds nothing and
   not-applicable entries are passed over. *)
C22_GymHoursTotal ==
  \A o \in eval.out :
    /\ Len(o.sorted) = Len(eval.logs)
    /\ \A x \in HoursLogs : Occurrences(o.sorted, x) = Occurrences(eval.logs, x)
    /\ \A i \in 1..(Len(o.sorted) - 1) :
         o.sorted[i].timestamp <= o.sorted[i + 1].timestamp
    /\ o.all = PairedTotal(o.sorted, Len(o.sorted))

(* two check-ins, then the check-out: counted from the later check-in *)
C22_Witness ==
  \E o \in eval.out :
    /\ Len(o.sorted) = 3
    /\ <<o.sorted[1].action, o.sorted[2].action, o.sorted[3].action>>
         = <<"check-in", "check-in", "check-out">>
    /\ o.sorted[1].timestamp < o.sorted[2].timestamp
    /\ o.sorted[2].timestamp < o.sorted[3].timestamp
    /\ o.all = o.sorted[3].timestamp - o.sorted[2].timestamp
    /\ eval.logs # o.sorted

(* C30: on logs sorted by non-decreasing timestamp, for period starts
   p1 <= p2 the gym-hours total for p1 is at least the total for p2, the
   total with no period start is at least both, and none is negative. *)
C30_PeriodMonotone ==
  \A o \in eval.out :
    /\ o.all >= o.period
    /\ o.period >= o.later
    /\ o.later >= 0

(* the later period starts between a check-in and its check-out and loses
   that interval *)
C30_Witness ==
  \E o \in eval.out :
    /\ eval.periodStart < eval.laterStart
    /\ o.period > o.later
    /\ \E j \in 1..Len(o.sorted) :
         /\ o.sorted[j].action = "check-out"
         /\ o.sorted[j].timestamp >= eval.laterStart
         /\ \E i \in PendingIn(o.sorted, j) :
              o.sorted[i].timestamp < eval.laterStart

(* C23: with calls run one at a time and every storage call succeeding,
   after any sequence of processScan, processCheckIn and processCheckOut
   calls the number of a member's success check-in logs minus the number of
   that member's success check-out logs is 0 or 1, and it is 1 exactly when
   the member has an Active Session. *)
C23_Ledger ==
  \A u \in Codes :
    LET balance == Cardinality(SuccessLogs(u, "check-in"))
                     - Cardinality(SuccessLogs(u, "check-out"))
    IN /\ balance \in {0, 1}
       /\ (balance = 1) = HasSession(u)

(* in, out and in again: two check-ins, one check-out, one session *)
C23_Witness ==
  \E u \in MemberIds :
    /\ Cardinality(SuccessLogs(u, "check-in")) = 2
    /\ Cardinality(SuccessLogs(u, "check-out")) = 1
    /\ HasSession(u)

(* C24: whenever processCheckIn returns success, storage calls failing or
   not, an Active Session row for that member is in the store as it
   returns; no success is reported, and no check-in success log written,
   for a check-in whose session insert did not take effect. *)
C24_SuccessHasSession ==
  (last.op = "processCheckIn" /\ last.success) => HasSession(last.userId)

(* C25: when check-in attempts for one member race and both call
   startSession, the member has at most one Active Session row afterwards,
   at most one of the invocations that called startSession reports success,
   and the scan log never holds two success check-ins of one member with no
   success check-out of that member between them. *)
C25_RaceOneSuccess ==
  \A u \in MemberIds :
    /\ Cardinality(SessionsOf(u)) <= 1
    /\ Cardinality({p \in Invocations :
                      /\ inflight[p].userId = u
                      /\ "startSession" \in inflight[p].calls
                      /\ inflight[p].success}) <= 1
    /\ \A i \in SuccessLogs(u, "check-in"), j \in SuccessLogs(u, "check-in") :
         i < j => \E k \in SuccessLogs(u, "check-out") : i < k /\ k < j

(* C26: a step that takes a member's current Subscription row out of the
   table, the member staying, leaves a Subscription History row with that
   row's member, dates, status and creation timestamp: when the history
   insert fails the current row is not overwritten. *)
C26_ArchivedBeforeOverwrite ==
  [][\A u \in MemberIds :
       \A row \in SubscriptionRows(u) :
         (u \in users' /\ row \notin subscriptions')
           => \E h \in subscription_history' :
                /\ h.user_id = row.user_id
                /\ h.start_date = row.start_date
                /\ h.end_date = row.end_date
                /\ h.status = row.status
                /\ h.created_at = row.created_at]_vars

(* C27: saving the edit-member dialog for a member who has a current
   subscription, every storage call succeeding, adds exactly one
   Subscription History row. *)
C27_EditArchivesOnce ==
  [][\A u \in MemberIds :
       (EditStep(u) /\ CurrentSubscription(u) # {})
         => Cardinality(subscription_history' \ subscription_history) = 1]_vars

(* C29: after a renewSubscription of one month or more, or a walk-in renewal
   the renew dialog let through, every storage call succeeding, the member's
   stored current subscription is active at the time the renewal returns and
   a processCheckIn made then, the member having no session, is granted. *)
C29_RenewedIsActive ==
  [][\A u \in MemberIds :
       RenewStep(u)
         => /\ isSubscriptionActive(CurrentSubscription(u), now)'
            /\ ~HasSession(u)'
                 => Granted(processCheckIn(DB, u, now, {}), "check-in")']_vars

(* C21: useQRScanner calls onScan only as it handles an Enter key while the
   trimmed buffer is not empty, and then once, with that code; any two
   consecutive onScan calls are more than debounceMs (500 ms) apart,
   whatever the codes; an Enter handled within debounceMs of the last onScan
   call makes no call and leaves the buffer empty. *)
C21_Debounce ==
  [][/\ scanner'.onScan # scanner.onScan
          => /\ KeyPress("Enter", FALSE)
             /\ trim(scanner.buffer) # <<>>
             /\ scanner'.onScan = Append(scanner.onScan,
                                         [code |-> trim(scanner.buffer),
                                          at |-> now])
     /\ \A i \in 1..(Len(scanner'.onScan) - 1) :
          scanner'.onScan[i + 1].at - scanner'.onScan[i].at > debounceMs
     /\ (/\ scanner.onScan # <<>>
         /\ now - scanner.onScan[Len(scanner.onScan)].at <= debounceMs
         /\ KeyPress("Enter", FALSE))
          => /\ scanner'.onScan = scanner.onScan
             /\ scanner'.buffer = <<>>]_vars

(* a code was scanned as the window of the scan before it closed, 500 ms
   after it: the Enter made no call and cleared the buffer *)
C21_Witness ==
  /\ last.op = "handleKeyPress"
  /\ last.key = "Enter"
  /\ last.code # <<>>
  /\ ~last.onScan
  /\ scanner.onScan # <<>>
  /\ now - scanner.onScan[Len(scanner.onScan)].at = debounceMs
  /\ scanner.buffer = <<>>

(* C28, as the specification states it: at most one processScan started by
   the scanner for a given code is in progress at any time. *)
C28_Original ==
  \A p \in Invocations, q \in Invocations :
    (p # q /\ InProgress(p) /\ InProgress(q))
      => inflight[p].userId # inflight[q].userId

(* C28, amended: two processScan calls started by the scanner for the same
   code and in progress at the same time were started more than debounceMs
   apart; the debounce spaces the starts and does not wait for a return. *)
C28_StartsSpaced ==
  \A p \in Invocations, q \in Invocations :
    (p < q /\ InProgress(p) /\ InProgress(q)
       /\ inflight[p].userId = inflight[q].userId)
      => StartedAt(q) - StartedAt(p) > debounceMs

(* two processScan calls for the same member are in progress, the second
   started 501 ms after the first *)
C28_Witness ==
  \E u \in MemberIds :
    /\ \A p \in Invocations : InProgress(p) /\ inflight[p].userId = u
    /\ StartedAt(2) - StartedAt(1) = debounceMs + 1

====
